---- MODULE Spec2Model ----
(***************************************************************************)
(* Model of the PIV setup calculator: calculate_camera_recording           *)
(* (src/camera_and_flow_setup.py) and the "Compute Setup" handler of the   *)
(* Streamlit shell (src/experiment_log_app.py).                            *)
(*                                                                         *)
(* Numbers.  Python floats are modelled as exact values q * pi^p with q a  *)
(* normalised non-negative fraction n/d and p an integer, so that every    *)
(* formula of the code is computed as written (products, quotients,        *)
(* squares, the comparison of line 46) and a division by zero is the       *)
(* ZeroDivisionError Python raises.  Rounding of the 64-bit float format   *)
(* is not modelled.  None is a value of its own.                           *)
(***************************************************************************)
EXTENDS Integers, Sequences, FiniteSets, TLC

VARIABLES args, clock, dirExists, files, ret, before, shell, hist, calls

vars == <<args, clock, dirExists, files, ret, before, shell, hist, calls>>

(***************************************************************************)
(* Bounds of the model.                                                    *)
(***************************************************************************)
\* The clock is counted in ticks; the model stops it at MaxTicks.
MaxTicks == 4
\* Ticks of the clock in one wall-clock second (the clock is finer than the
\* second the file name keeps).
TicksPerSecond == 2
\* Calls of calculate_camera_recording in one behaviour.
MaxCalls == 3

(***************************************************************************)
(* Arithmetic on the values q * pi^p.                                      *)
(***************************************************************************)
RECURSIVE GCD(_, _)
GCD(a, b) == IF b = 0 THEN a ELSE GCD(b, a % b)

None == [k |-> "None", n |-> 0, d |-> 1, p |-> 0]

\* Name of a local variable that no assignment has bound (Ucz1 outside the
\* dual-jet branch).
Unbound == [k |-> "Unbound", n |-> 0, d |-> 1, p |-> 0]

Val(n, d, p) ==
    LET g == GCD(n, d)
    IN  [k |-> "num", n |-> n \div g, d |-> d \div g, p |-> IF n = 0 THEN 0 ELSE p]

\* The literal n/d (1.7 is Num(17, 10)).
Num(n, d) == Val(n, d, 0)

IsNone(x) == x.k = "None"

IsZero(x) == x.k = "num" /\ x.n = 0

\* x * y, cross-reduced before multiplying so that the integers stay small.
Mul(x, y) ==
    LET g1 == GCD(x.n, y.d)
        g2 == GCD(y.n, x.d)
    IN  IF x.n = 0 \/ y.n = 0 THEN Num(0, 1)
        ELSE [k |-> "num", n |-> (x.n \div g1) * (y.n \div g2),
              d |-> (x.d \div g2) * (y.d \div g1), p |-> x.p + y.p]

\* x / y for y # 0.
Div(x, y) == Mul(x, [k |-> "num", n |-> y.d, d |-> y.n, p |-> 0 - y.p])

\* np.pi
NpPi == [k |-> "num", n |-> 1, d |-> 1, p |-> 1]

\* np.sqrt(x), kept symbolic: the value whose square is x.
NpSqrt(x) == [x EXCEPT !.k = "sqrt"]

\* n1/d1 < n2/d2 for non-negative fractions, by the continued-fraction
\* expansion (no product is formed, so nothing overflows).
RECURSIVE FracLess(_, _, _, _)
FracLess(n1, d1, n2, d2) ==
    LET q1 == n1 \div d1
        q2 == n2 \div d2
        r1 == n1 % d1
        r2 == n2 % d2
    IN  IF q1 # q2 THEN q1 < q2
        ELSE IF r2 = 0 THEN FALSE
        ELSE IF r1 = 0 THEN TRUE
        ELSE FracLess(d2, r2, d1, r1)

\* Rational bounds of pi: 333/106 < pi < 355/113.
PiLo == Num(333, 106)
PiHi == Num(355, 113)

\* A rational lower and upper bound of a value with p in {-1, 0, 1}.
Lower(x) ==
    IF x.p = 0 THEN x
    ELSE IF x.p = 1 THEN Mul([x EXCEPT !.p = 0], PiLo)
    ELSE Div([x EXCEPT !.p = 0], PiHi)

Upper(x) ==
    IF x.p = 0 THEN x
    ELSE IF x.p = 1 THEN Mul([x EXCEPT !.p = 0], PiHi)
    ELSE Div([x EXCEPT !.p = 0], PiLo)

\* x > y as Python evaluates it on two numbers.  The operands of line 46
\* carry the same power of pi, so the comparison is the exact comparison of
\* the fractions; operands with different powers are separated by the
\* bounds of pi.
Greater(x, y) ==
    IF x.p = y.p THEN FracLess(y.n, y.d, x.n, x.d)
    ELSE FracLess(Upper(y).n, Upper(y).d, Lower(x).n, Lower(x).d)

(***************************************************************************)
(* calculate_camera_recording: the computation (lines 29-56).              *)
(* A run of the body either binds every local or raises at one line.       *)
(***************************************************************************)
Raise(e, l) == [exc |-> e, line |-> l]

\* Variant of ExitVelocity that divides by D instead of D**2.
ExitVelocityLinear(Q, D) ==
    Div(Mul(Num(4, 1), Q),
        Mul(Mul(Mul(Num(1000, 1), Num(60, 1)), NpPi), D))

\* U = 4 * Q / (1000 * 60 * np.pi * D**2)
ExitVelocity(Q, D) ==
    Div(Mul(Num(4, 1), Q),
        Mul(Mul(Mul(Num(1000, 1), Num(60, 1)), NpPi), Mul(D, D)))

\* Uc = 5.8 * U / fov
CenterlineVelocity(U, fov) == Div(Mul(Num(58, 10), U), fov)

\* Re = U * D / nu
Reynolds(U, D, nu) == Div(Mul(U, D), nu)

\* Variant of DominantJet that compares with >= (a tie goes to Secondary).
DominantJetOnTie(Ucz0, Ucz1) ==
    IF ~Greater(Ucz0, Ucz1)
    THEN [U_ref |-> Ucz1, dominant_jet |-> "Secondary"]
    ELSE [U_ref |-> Ucz0, dominant_jet |-> "Primary"]

\* if Ucz1 > Ucz0: Secondary, else: Primary
DominantJet(Ucz0, Ucz1) ==
    IF Greater(Ucz1, Ucz0)
    THEN [U_ref |-> Ucz1, dominant_jet |-> "Secondary"]
    ELSE [U_ref |-> Ucz0, dominant_jet |-> "Primary"]

\* Variant of DeltaT that leaves the resolution out of the divisor.
DeltaTWithoutRy(ds, H_fov, Ry, U_ref) == Div(Mul(ds, H_fov), U_ref)

\* delta_t = ds * H_fov / (Ry * U_ref)
DeltaT(ds, H_fov, Ry, U_ref) == Div(Mul(ds, H_fov), Mul(Ry, U_ref))

\* sample_rate = 1 / delta_t
SampleRate(delta_t) == Div(Num(1, 1), delta_t)

\* Variant of Timing that validates the divisor and answers a zero divisor
\* with zero timings instead of raising.
TimingValidated(a, l) ==
    IF IsZero(Mul(a.Ry, l.U_ref))
    THEN [l EXCEPT !.delta_t = Num(0, 1), !.sample_rate = Num(0, 1)]
    ELSE LET delta_t == DeltaT(a.ds, a.H_fov, a.Ry, l.U_ref)
         IN  IF IsZero(delta_t) THEN Raise("ZeroDivisionError", 56)
             ELSE [l EXCEPT !.delta_t = delta_t,
                            !.sample_rate = SampleRate(delta_t)]

\* Lines 54-56, entered with every other local bound in l.
Timing(a, l) ==
    IF IsZero(Mul(a.Ry, l.U_ref)) THEN Raise("ZeroDivisionError", 55)
    ELSE LET delta_t == DeltaT(a.ds, a.H_fov, a.Ry, l.U_ref)
         IN  IF IsZero(delta_t) THEN Raise("ZeroDivisionError", 56)
             ELSE [l EXCEPT !.delta_t = delta_t,
                            !.sample_rate = SampleRate(delta_t)]

\* Lines 36-49, the dual-jet branch.  Python evaluates 4 * Q1 first, then
\* the divisor with D1**2, then the division.
DualJet(a, U0, Ucz0, Re0) ==
    IF IsNone(a.Q1) THEN Raise("TypeError", 36)
    ELSE IF IsNone(a.D1) THEN Raise("TypeError", 36)
    ELSE IF IsZero(a.D1) THEN Raise("ZeroDivisionError", 36)
    ELSE LET U1 == ExitVelocity(a.Q1, a.D1)
             Re1 == Reynolds(U1, a.D1, a.nu)
         IN
    IF IsZero(U0) THEN Raise("ZeroDivisionError", 38)
    ELSE IF IsNone(a.L_I) THEN Raise("TypeError", 40)
    ELSE IF IsNone(a.H_I) THEN Raise("TypeError", 41)
    ELSE IF IsZero(U1) THEN Raise("ZeroDivisionError", 42)
    ELSE IF IsNone(a.x_fov) THEN Raise("TypeError", 45)
    ELSE IF IsZero(a.x_fov) THEN Raise("ZeroDivisionError", 45)
    ELSE LET Ucz1 == CenterlineVelocity(U1, a.x_fov)
             dom == DominantJet(Ucz0, Ucz1)
         IN  Timing(a, [exc |-> "none", line |-> 0,
                        U0 |-> U0, Ucz0 |-> Ucz0, Re0 |-> Re0,
                        U1 |-> U1, Re1 |-> Re1,
                        U1_U0 |-> Div(U1, U0),
                        D0_D1 |-> Div(a.D0, a.D1),
                        LI_D1 |-> Div(a.L_I, a.D1),
                        HI_D0 |-> Div(a.H_I, a.D0),
                        eps |-> NpSqrt(Mul(Div(a.D1, a.D0), Div(U0, U1))),
                        Ucz1 |-> Ucz1,
                        U_ref |-> dom.U_ref, dominant_jet |-> dom.dominant_jet,
                        delta_t |-> Unbound, sample_rate |-> Unbound])

\* Lines 51-52, the single-jet branch: no secondary parameter is read.
SingleJet(a, U0, Ucz0, Re0) ==
    Timing(a, [exc |-> "none", line |-> 0,
               U0 |-> U0, Ucz0 |-> Ucz0, Re0 |-> Re0,
               U1 |-> None, Re1 |-> None, U1_U0 |-> None, D0_D1 |-> None,
               LI_D1 |-> None, HI_D0 |-> None, eps |-> None,
               Ucz1 |-> Unbound,
               U_ref |-> Ucz0, dominant_jet |-> "Primary",
               delta_t |-> Unbound, sample_rate |-> Unbound])

\* Variant of Locals that enters the dual-jet branch whatever dual_jet is.
LocalsAlwaysDual(a) ==
    IF IsZero(a.D0) THEN Raise("ZeroDivisionError", 30)
    ELSE LET U0 == ExitVelocity(a.Q0, a.D0) IN
    IF IsZero(a.z_fov) THEN Raise("ZeroDivisionError", 31)
    ELSE LET Ucz0 == CenterlineVelocity(U0, a.z_fov) IN
    IF IsZero(a.nu) THEN Raise("ZeroDivisionError", 32)
    ELSE LET Re0 == Reynolds(U0, a.D0, a.nu) IN
    DualJet(a, U0, Ucz0, Re0)

\* Lines 29-56: the locals after the computation, or the exception raised.
Locals(a) ==
    IF IsZero(a.D0) THEN Raise("ZeroDivisionError", 30)
    ELSE LET U0 == ExitVelocity(a.Q0, a.D0) IN
    IF IsZero(a.z_fov) THEN Raise("ZeroDivisionError", 31)
    ELSE LET Ucz0 == CenterlineVelocity(U0, a.z_fov) IN
    IF IsZero(a.nu) THEN Raise("ZeroDivisionError", 32)
    ELSE LET Re0 == Reynolds(U0, a.D0, a.nu) IN
    IF a.dual_jet THEN DualJet(a, U0, Ucz0, Re0)
    ELSE SingleJet(a, U0, Ucz0, Re0)

(***************************************************************************)
(* The report text (lines 58-101) and the result (lines 111-123).          *)
(***************************************************************************)
\* The summary, as the sequence of its sections; each section keeps the
\* values its lines print.  t is datetime.datetime.now() of line 61.
Summary(a, l, t) ==
    <<[section |-> "Experiment Setup Report", time |-> t,
       experiment |-> a.experiment_name],
      [section |-> "Input Parameters", H_fov |-> a.H_fov, z_fov |-> a.z_fov,
       Ry |-> a.Ry, ds |-> a.ds, nu |-> a.nu],
      [section |-> "Primary Jet", Q0 |-> a.Q0, D0 |-> a.D0, U0 |-> l.U0,
       Ucz0 |-> l.Ucz0, Re0 |-> l.Re0]>>
    \o (IF a.dual_jet
        THEN <<[section |-> "Secondary Jet", x_fov |-> a.x_fov, Q1 |-> a.Q1,
                D1 |-> a.D1, U1 |-> l.U1, Ucz1 |-> l.Ucz1, Re1 |-> l.Re1],
               [section |-> "Non-Dimensional Ratios", U1_U0 |-> l.U1_U0,
                D0_D1 |-> l.D0_D1, LI_D1 |-> l.LI_D1, HI_D0 |-> l.HI_D0,
                eps |-> l.eps]>>
        ELSE <<>>)
    \o <<[section |-> "Timing Parameters", dominant_jet |-> l.dominant_jet,
          U_ref |-> l.U_ref, delta_t |-> l.delta_t, fps |-> l.sample_rate]>>

\* The dict of lines 112-121: its keys in insertion order and its items.
Results(a, l) ==
    LET base == [keys |-> <<"U0", "Re0", "Uc_ref", "delta_t", "fps", "dominant_jet">>,
                 at |-> ("U0" :> l.U0) @@ ("Re0" :> l.Re0) @@ ("Uc_ref" :> l.U_ref)
                        @@ ("delta_t" :> l.delta_t) @@ ("fps" :> l.sample_rate)
                        @@ ("dominant_jet" :> l.dominant_jet)]
    IN  IF a.dual_jet
        THEN [keys |-> base.keys
                       \o <<"U1", "Re1", "U1/U0", "D0/D1", "LI/DI", "HI/D)", "epsilon">>,
              at |-> ("U1" :> l.U1) @@ ("Re1" :> l.Re1) @@ ("U1/U0" :> l.U1_U0)
                     @@ ("D0/D1" :> l.D0_D1) @@ ("LI/DI" :> l.LI_D1)
                     @@ ("HI/D)" :> l.HI_D0) @@ ("epsilon" :> l.eps) @@ base.at]
        ELSE base

(***************************************************************************)
(* The clock and the file name (line 106).                                 *)
(***************************************************************************)
\* The wall-clock second of the day at tick 0 (shortly before a minute
\* turns).
BootSecond == 58

\* The day of the run, as %Y%m%d prints it; the run stays within the day.
Today == "20260101"

Pad2(n) == IF n < 10 THEN "0" \o ToString(n) ELSE ToString(n)

\* The wall-clock second datetime.datetime.now() falls in at tick t.
SecondOf(t) == BootSecond + (t \div TicksPerSecond)

\* Variant of Strftime with the format '%Y%m%d_%H%M': the seconds are lost.
StrftimeWithoutSeconds(t) ==
    LET s == SecondOf(t)
    IN  Today \o "_" \o Pad2((s \div 3600) % 24) \o Pad2((s \div 60) % 60)

\* datetime.datetime.now().strftime('%Y%m%d_%H%M%S') at tick t.
Strftime(t) ==
    LET s == SecondOf(t)
    IN  Today \o "_" \o Pad2((s \div 3600) % 24) \o Pad2((s \div 60) % 60)
              \o Pad2(s % 60)

\* Variant of ReportFileName without the extension.
ReportFileNameWithoutExtension(experiment_name, t) ==
    experiment_name \o "_" \o Strftime(t)

\* fname = f"{experiment_name}_{...strftime(...)}.txt"
ReportFileName(experiment_name, t) ==
    experiment_name \o "_" \o Strftime(t) \o ".txt"

(***************************************************************************)
(* The state.                                                              *)
(*   args       the arguments of the next call (the form of the shell)     *)
(*   clock      the wall clock, in ticks                                   *)
(*   dirExists  whether output_dir exists                                  *)
(*   files      the files of output_dir: file name -> content              *)
(*   ret        how the last call of calculate_camera_recording ended      *)
(*   before     the file system as the last call found it                  *)
(*   shell      how the last run of the Compute Setup handler ended        *)
(*   hist       (experiment name, second) -> the summary of the last call  *)
(*              that wrote a report for that pair                          *)
(*   calls      the calls made so far                                      *)
(***************************************************************************)
NoFiles == [f \in {} |-> <<>>]

NoCall ==
    [status |-> "none", exc |-> "none", line |-> 0, args |-> <<>>,
     value |-> <<>>, locals |-> <<>>, summary |-> <<>>, fname |-> "", printed |-> ""]

\* The call ended with `raise`: nothing is returned.
Raised(a, e, l) ==
    [NoCall EXCEPT !.status = "raised", !.exc = e, !.line = l, !.args = a]

\* return results (line 123)
Returned(a, l, summary, fname, printed) ==
    [NoCall EXCEPT !.status = "returned", !.args = a, !.value = Results(a, l),
                   !.locals = l, !.summary = summary, !.fname = fname,
                   !.printed = printed]

ShellIdle == [status |-> "idle", exc |-> "none", results |-> "", summary |-> ""]

\* output_dir="experiment_logs"
OutputDir == "experiment_logs"

\* os.path.join(output_dir, fname)
PathJoin(dir, fname) == dir \o "/" \o fname

\* open(path, "w") followed by f.write(summary): the file holds the summary,
\* whatever it held.
WriteFile(fs, fname, text) == (fname :> text) @@ fs

\* The failures the file system can answer lines 105-108 with.
Faults == {"none", "makedirs", "open", "write"}

(***************************************************************************)
(* calculate_camera_recording called with the arguments a, lines 6-123.   *)
(* t2 is the clock read by                                                 *)
(* line 106 (line 61 read `clock`); fault is the answer of the file        *)
(* system; cut is how much of the text a failed write left in the file.    *)
(***************************************************************************)
calculate_camera_recording(a, fault, cut, t2) ==
    LET l == Locals(a)
        summary == Summary(a, l, clock)
        fname == ReportFileName(a.experiment_name, t2)
    IN  /\ calls < MaxCalls
        /\ calls' = calls + 1
        /\ before' = [dirExists |-> dirExists, files |-> files]
        /\ IF l.exc # "none"
           THEN /\ fault = "none" /\ cut = 0 /\ t2 = clock
                /\ ret' = Raised(a, l.exc, l.line)
                /\ UNCHANGED <<clock, dirExists, files, hist>>
           ELSE IF ~a.generate_report
           THEN /\ fault = "none" /\ cut = 0 /\ t2 = clock
                /\ ret' = Returned(a, l, summary, "", "")
                /\ UNCHANGED <<clock, dirExists, files, hist>>
           ELSE IF fault = "makedirs"
           THEN /\ ~dirExists /\ cut = 0 /\ t2 = clock
                /\ ret' = Raised(a, "OSError", 105)
                /\ UNCHANGED <<clock, dirExists, files, hist>>
           ELSE /\ dirExists' = TRUE
                /\ clock' = t2
                /\ IF fault = "open"
                   THEN /\ cut = 0
                        /\ ret' = Raised(a, "OSError", 107)
                        /\ UNCHANGED <<files, hist>>
                   ELSE IF fault = "write"
                   THEN /\ cut < Len(summary)
                        /\ files' = WriteFile(files, fname, SubSeq(summary, 1, cut))
                        /\ ret' = Raised(a, "OSError", 108)
                        /\ UNCHANGED hist
                   ELSE /\ cut = 0
                        /\ files' = WriteFile(files, fname, summary)
                        /\ hist' = (<<a.experiment_name, SecondOf(t2)>> :> summary) @@ hist
                        /\ ret' = Returned(a, l, summary, fname,
                                           "Report saved: " \o PathJoin(OutputDir, fname))

\* The clock reads a call may get at line 106: time may pass after line 61.
LaterTicks == {t \in {clock, clock + 1} : t <= MaxTicks}

\* A direct call with the arguments args, on a file system that works.
Call ==
    /\ \E t2 \in LaterTicks : calculate_camera_recording(args, "none", 0, t2)
    /\ UNCHANGED <<args, shell>>

\* A direct call on a file system that may fail.
CallFault ==
    /\ \E fault \in Faults, cut \in 0..5, t2 \in LaterTicks :
           calculate_camera_recording(args, fault, cut, t2)
    /\ UNCHANGED <<args, shell>>

(***************************************************************************)
(* The shell (experiment_log_app.py).                                      *)
(***************************************************************************)
\* Lines 31-37: the secondary widgets exist, and hold numbers, exactly when
\* the Dual Jet box is ticked.
WidgetsHoldNumbers(f) ==
    f.dual_jet =>
        ~(IsNone(f.Q1) \/ IsNone(f.D1) \/ IsNone(f.L_I) \/ IsNone(f.H_I)
          \/ IsNone(f.x_fov))

\* Lines 40-50: the keyword arguments the handler passes.
ShellArgs(f) ==
    [f EXCEPT !.Q1 = IF f.dual_jet THEN @ ELSE None,
              !.D1 = IF f.dual_jet THEN @ ELSE None,
              !.L_I = IF f.dual_jet THEN @ ELSE None,
              !.H_I = IF f.dual_jet THEN @ ELSE None,
              !.x_fov = IF f.dual_jet THEN @ ELSE None,
              !.generate_report = TRUE]

\* results, summary = <obj> (line 40): the dict is iterated, which yields
\* its keys, and there must be exactly two of them.
Unpack2(obj) ==
    IF Len(obj.keys) = 2
    THEN [ShellIdle EXCEPT !.status = "computed", !.results = obj.keys[1],
                           !.summary = obj.keys[2]]
    ELSE [ShellIdle EXCEPT !.status = "error", !.exc = "ValueError"]

\* if st.button("Compute Setup"): lines 39-51.  An exception of the call
\* passes through the handler; otherwise the return value is unpacked.
ComputeSetup ==
    /\ WidgetsHoldNumbers(args)
    /\ \E t2 \in LaterTicks :
           calculate_camera_recording(ShellArgs(args), "none", 0, t2)
    /\ shell' = IF ret'.status = "raised"
                THEN [ShellIdle EXCEPT !.status = "error", !.exc = ret'.exc]
                ELSE Unpack2(ret'.value)
    /\ UNCHANGED args

\* experiment_name = st.sidebar.text_input(...), line 19
SetExperimentName ==
    \E name \in {"single_jet_test", "dual_jet_test"} :
        /\ name # args.experiment_name
        /\ args' = [args EXCEPT !.experiment_name = name]
        /\ UNCHANGED <<clock, dirExists, files, ret, before, shell, hist, calls>>

\* Time passes.
Tick ==
    /\ clock < MaxTicks
    /\ clock' = clock + 1
    /\ UNCHANGED <<args, dirExists, files, ret, before, shell, hist, calls>>

(***************************************************************************)
(* Inputs.                                                                 *)
(***************************************************************************)
\* The defaults of lines 7-25 and the values set beside them: zeros, None
\* for the secondary parameters, and a secondary jet equal to the primary
\* one (Q1 = Q0, D1 = D0, x_fov = z_fov gives Ucz1 = Ucz0).
Inputs ==
    [H_fov : {Num(11, 100)}, z_fov : {Num(272, 10)}, Q0 : {Num(17, 10)},
     Ry : {Num(0, 1), Num(1024, 1)}, ds : {Num(16, 1)},
     D0 : {Num(0, 1), Num(11, 1000)}, nu : {Num(0, 1), Num(1, 1000000)},
     dual_jet : BOOLEAN,
     Q1 : {None, Num(55, 100), Num(17, 10)},
     D1 : {None, Num(0, 1), Num(13, 10000), Num(11, 1000)},
     L_I : {None, Num(5, 100)}, H_I : {None, Num(10, 100)},
     x_fov : {None, Num(75, 10), Num(272, 10)},
     experiment_name : {"single_jet_test"},
     generate_report : BOOLEAN]

\* The inputs of the report scenarios: the single-jet and the dual-jet
\* defaults and a call that fails in the computation.
ReportInputs ==
    {a \in Inputs :
        /\ a.nu # Num(0, 1) /\ a.Ry # Num(0, 1)
        /\ a.Q1 = Num(55, 100) /\ a.D1 = Num(13, 10000) /\ a.L_I = Num(5, 100)
        /\ a.H_I = Num(10, 100) /\ a.x_fov = Num(75, 10)
        /\ a.generate_report}

InitState(inputs) ==
    /\ args \in inputs
    /\ clock = 0
    /\ dirExists \in BOOLEAN
    /\ files = NoFiles
    /\ ret = NoCall
    /\ before = [dirExists |-> dirExists, files |-> files]
    /\ shell = ShellIdle
    /\ hist = [p \in {} |-> <<>>]
    /\ calls = 0

Init == InitState(Inputs)

Next == Call \/ ComputeSetup

Spec == Init /\ [][Next]_vars

InitReports == InitState(ReportInputs)

NextReports == Tick \/ Call \/ ComputeSetup \/ SetExperimentName

SpecReports == InitReports /\ [][NextReports]_vars

NextFaults == CallFault

SpecFaults == InitReports /\ [][NextFaults]_vars

(***************************************************************************)
(* Properties.                                                             *)
(***************************************************************************)
Keys(obj) == {obj.keys[i] : i \in 1..Len(obj.keys)}

SecondaryFields(a) == {a.Q1, a.D1, a.L_I, a.H_I, a.x_fov}

AnyNone(a) == \E x \in SecondaryFields(a) : IsNone(x)

AllNone(a) ==
    [a EXCEPT !.Q1 = None, !.D1 = None, !.L_I = None, !.H_I = None, !.x_fov = None]

FsUnchanged == dirExists = before.dirExists /\ files = before.files

\* x is known to lie in [lo, hi], pi being known only by its bounds.
CertainlyWithin(x, lo, hi) ==
    /\ ~FracLess(Lower(x).n, Lower(x).d, lo.n, lo.d)
    /\ ~FracLess(hi.n, hi.d, Upper(x).n, Upper(x).d)

\* x may lie in [lo, hi]: the bounds of pi do not exclude it.
PossiblyWithin(x, lo, hi) ==
    /\ ~FracLess(Upper(x).n, Upper(x).d, lo.n, lo.d)
    /\ ~FracLess(hi.n, hi.d, Lower(x).n, Lower(x).d)

\* The single-jet default scenario of the spec (section 8).
IsDefaultSingle(a) ==
    /\ a.Q0 = Num(17, 10) /\ a.D0 = Num(11, 1000) /\ a.z_fov = Num(272, 10)
    /\ a.Ry = Num(1024, 1) /\ a.ds = Num(16, 1) /\ a.H_fov = Num(11, 100)
    /\ a.nu = Num(1, 1000000) /\ ~a.dual_jet

\* C1 (as claimed): every call that returns hands back exactly two values,
\* so the unpacking `results, summary = ...` of the Compute Setup handler
\* succeeds, and the handler fails only when the call itself raised.
C1_ReturnsTwoValues ==
    /\ ret.status = "returned" => Unpack2(ret.value).status = "computed"
    /\ shell.status = "error" => ret.status = "raised"

\* C2: on every call that returns, dominant_jet is "Secondary" iff dual_jet
\* holds and Ucz1 > Ucz0 strictly, and "Primary" otherwise (a tie and a
\* single-jet call give "Primary"); Uc_ref is Ucz1 exactly when the jet is
\* "Secondary" and Ucz0 exactly when it is "Primary", so that in dual-jet
\* mode Uc_ref is the larger of the two.
C2_DominantJet ==
    ret.status = "returned" =>
        LET a == ret.args
            l == ret.locals
            r == ret.value.at
            secondary == a.dual_jet /\ l.Ucz1.n * l.Ucz0.d > l.Ucz0.n * l.Ucz1.d
        IN  /\ r["dominant_jet"] = (IF secondary THEN "Secondary" ELSE "Primary")
            /\ r["Uc_ref"] = (IF secondary THEN l.Ucz1 ELSE l.Ucz0)
            /\ a.dual_jet =>
                  /\ l.Ucz1.p = l.Ucz0.p
                  /\ r["Uc_ref"].n * l.Ucz0.d >= l.Ucz0.n * r["Uc_ref"].d
                  /\ r["Uc_ref"].n * l.Ucz1.d >= l.Ucz1.n * r["Uc_ref"].d

\* C2 witness: a dual-jet call with Ucz1 = Ucz0 returned "Primary".
C2_Witness ==
    /\ ret.status = "returned" /\ ret.args.dual_jet
    /\ ret.locals.Ucz1 = ret.locals.Ucz0
    /\ ret.value.at["dominant_jet"] = "Primary"

\* C3 (as claimed): the returned record holds U0, Ucz0, Re0, dominant_jet,
\* Uc_ref, delta_t and fps on every call that returns, and the secondary
\* fields U1, Re1, Ucz1, U1/U0, D0/D1, L_I/D1, H_I/D0 and eps iff dual_jet,
\* under these names and with the values of their formulas.
C3_ResultFields ==
    ret.status = "returned" =>
        LET a == ret.args
            l == ret.locals
            r == ret.value.at
            always == {"U0", "Ucz0", "Re0", "dominant_jet", "Uc_ref", "delta_t", "fps"}
            dual == {"U1", "Re1", "Ucz1", "U1/U0", "D0/D1", "L_I/D1", "H_I/D0", "eps"}
        IN  /\ always \subseteq Keys(ret.value)
            /\ \A key \in dual : key \in Keys(ret.value) <=> a.dual_jet
            /\ a.dual_jet =>
                  /\ r["L_I/D1"] = Div(a.L_I, a.D1)
                  /\ r["H_I/D0"] = Div(a.H_I, a.D0)

\* C4 (as claimed): the single-jet default scenario gives U0 ~ 0.2952,
\* Ucz0 ~ 0.0629, Re0 ~ 3247 (to the digits shown), "Primary", delta_t of
\* the order of 3e-3 s (between 1e-3 and 1e-2) and fps in the hundreds.
C4_DefaultScenarioAsClaimed ==
    (ret.status = "returned" /\ IsDefaultSingle(ret.args)) =>
        LET l == ret.locals
        IN  /\ PossiblyWithin(l.U0, Num(29515, 100000), Num(29525, 100000))
            /\ PossiblyWithin(l.Ucz0, Num(6285, 100000), Num(6295, 100000))
            /\ PossiblyWithin(l.Re0, Num(32465, 10), Num(32475, 10))
            /\ l.dominant_jet = "Primary"
            /\ PossiblyWithin(l.delta_t, Num(1, 1000), Num(1, 100))
            /\ PossiblyWithin(l.sample_rate, Num(100, 1), Num(1000, 1))

\* C4 (amended): the single-jet default scenario returns, with
\* U0 ~ 0.2981 m/s, Ucz0 ~ 0.0636 m/s, Re0 ~ 3280 (each rounded to the
\* digits shown), dominant_jet "Primary", delta_t ~ 0.027 s (of the order
\* of 3e-2 s) and fps ~ 37 (in the tens).
C4_DefaultScenario ==
    (ret.status # "none" /\ IsDefaultSingle(ret.args)) =>
        /\ ret.status = "returned"
        /\ LET l == ret.locals
               r == ret.value.at
           IN  /\ CertainlyWithin(r["U0"], Num(29805, 100000), Num(29815, 100000))
               /\ CertainlyWithin(l.Ucz0, Num(6355, 100000), Num(6365, 100000))
               /\ r["Uc_ref"] = l.Ucz0
               /\ CertainlyWithin(r["Re0"], Num(32795, 10), Num(32805, 10))
               /\ r["dominant_jet"] = "Primary"
               /\ CertainlyWithin(r["delta_t"], Num(265, 10000), Num(275, 10000))
               /\ CertainlyWithin(r["fps"], Num(365, 10), Num(375, 10))

\* C4 witness: the default single-jet call has returned.
C4_Witness == ret.status = "returned" /\ IsDefaultSingle(ret.args)

\* The arguments the call reads are all positive.
ValidInputs(a) ==
    /\ \A x \in {a.ds, a.H_fov, a.Ry, a.Q0, a.D0, a.z_fov, a.nu} : x.n > 0
    /\ a.dual_jet => \A x \in SecondaryFields(a) : ~IsNone(x) /\ x.n > 0

\* C5: for every valid input combination the call returns, and the
\* returned delta_t equals ds * H_fov / (Ry * Uc_ref) for the Uc_ref that is
\* returned (delta_t * Ry * Uc_ref = ds * H_fov), fps * delta_t = 1, and
\* both are strictly positive.
C5_Timing ==
    (ret.status # "none" /\ ValidInputs(ret.args)) =>
        /\ ret.status = "returned"
        /\ LET a == ret.args
               r == ret.value.at
           IN  /\ Mul(Mul(r["delta_t"], a.Ry), r["Uc_ref"]) = Mul(a.ds, a.H_fov)
               /\ Mul(r["fps"], r["delta_t"]) = Num(1, 1)
               /\ r["delta_t"].k = "num" /\ r["delta_t"].n > 0 /\ r["delta_t"].d > 0
               /\ r["fps"].k = "num" /\ r["fps"].n > 0 /\ r["fps"].d > 0

\* C5 witness: a valid dual-jet call timed on the secondary jet returned.
C5_Witness ==
    /\ ret.status = "returned" /\ ValidInputs(ret.args) /\ ret.args.dual_jet
    /\ ret.value.at["dominant_jet"] = "Secondary"

\* The pattern %Y%m%d_%H%M%S of the second s of the day, written out digit
\* by digit.
Digits == <<"0", "1", "2", "3", "4", "5", "6", "7", "8", "9">>

TwoDigits(n) == Digits[(n \div 10) + 1] \o Digits[(n % 10) + 1]

ExpectedStamp(s) ==
    "20260101_" \o TwoDigits(s \div 3600) \o TwoDigits((s % 3600) \div 60)
                \o TwoDigits(s % 60)

ExpectedFileName(name, s) == name \o "_" \o ExpectedStamp(s) \o ".txt"

\* The last call changed nothing in output_dir but the file it names.
OnlyReportWritten ==
    /\ \A f \in DOMAIN before.files :
          f \in DOMAIN files /\ (files[f] # before.files[f] => f = ret.fname)
    /\ \A f \in DOMAIN files : f \notin DOMAIN before.files => f = ret.fname

\* C6: the report write is the only effect of a call on the file system.
\* A call with generate_report=False leaves it unchanged (no directory, no
\* file); a call with generate_report=True that returns, made when
\* output_dir did not exist, leaves the directory existing with exactly one
\* file, named <experiment_name>_<YYYYMMDD_HHMMSS>.txt, whose content is
\* the summary of that call, which names the experiment.
C6_ReportWrite ==
    ret.status # "none" =>
        LET a == ret.args
        IN  /\ ~a.generate_report => FsUnchanged
            /\ OnlyReportWritten
            /\ dirExists # before.dirExists => a.generate_report /\ dirExists
            /\ (ret.status = "returned" /\ a.generate_report /\ ~before.dirExists) =>
                  /\ dirExists
                  /\ Cardinality(DOMAIN files) = 1
                  /\ \A f \in DOMAIN files :
                        /\ \E t \in 0..clock :
                              f = ExpectedFileName(a.experiment_name, SecondOf(t))
                        /\ Len(f) = Len(a.experiment_name) + 20
                        /\ files[f] = ret.summary
                        /\ files[f][1].experiment = a.experiment_name

\* C6 witness: a call with generate_report=True returned after finding no
\* output directory, and the directory now holds a file.
C6_Witness ==
    /\ ret.status = "returned" /\ ret.args.generate_report
    /\ ~before.dirExists /\ dirExists /\ DOMAIN files # {}

\* C7 (as claimed): a call either returns its result with the complete
\* report written, or fails and leaves nothing behind: no result, no report
\* file (complete, empty or truncated), no newly created directory.
C7_NoPartialResults ==
    /\ ret.status = "raised" => FsUnchanged /\ ret.value = <<>>
    /\ (ret.status = "returned" /\ ret.args.generate_report) =>
          /\ ret.fname \in DOMAIN files
          /\ files[ret.fname] = ret.summary

\* One of the zero arguments of C8.
ZeroCase(a) ==
    \/ IsZero(a.D0) \/ IsZero(a.nu) \/ IsZero(a.Ry)
    \/ a.dual_jet /\ IsZero(a.D1)

\* With dual_jet=False a zero D1 is not the cause of a failure: the call
\* returns when D0, nu and Ry are not zero.
ZeroD1Harmless(a) ==
    (~a.dual_jet /\ IsZero(a.D1) /\ ~ZeroCase(a)) => ret.status = "returned"

FirstUse(a) ==
    IF IsNone(a.Q1) \/ IsNone(a.D1) THEN 36
    ELSE IF IsNone(a.L_I) THEN 40
    ELSE IF IsNone(a.H_I) THEN 41
    ELSE 45

\* With dual_jet=False the secondary parameters are not read: the call ends
\* as the same call with all five None ends, and returns when D0, nu and
\* Ry are not zero.
SecondaryNotRead(a) ==
    ~a.dual_jet =>
        LET n == AllNone(a)
        IN  /\ (ret.status = "returned") = (Locals(n).exc = "none")
            /\ ret.status = "returned" =>
                  /\ ret.value = Results(n, Locals(n))
                  /\ SubSeq(ret.summary, 2, Len(ret.summary))
                        = SubSeq(Summary(n, Locals(n), 0), 2, Len(ret.summary))
            /\ ret.status = "raised" =>
                  /\ ret.exc = Locals(n).exc /\ ret.line = Locals(n).line
            /\ ~ZeroCase(a) => ret.status = "returned"

C10_Reports ==
    /\ Cardinality(DOMAIN files) = Cardinality(DOMAIN hist)
    /\ \A p \in DOMAIN hist :
          /\ ExpectedFileName(p[1], p[2]) \in DOMAIN files
          /\ files[ExpectedFileName(p[1], p[2])] = hist[p]
    /\ DOMAIN files # {} => dirExists
    /\ ret.status # "none" => OnlyReportWritten
    /\ (ret.status = "raised" /\ before.dirExists) => ret.line < 103
    /\ (ret.status = "returned" /\ ret.args.generate_report) =>
          /\ \E t \in 0..clock :
                /\ ret.fname = ExpectedFileName(ret.args.experiment_name, SecondOf(t))
                /\ ret.printed = "Report saved: experiment_logs/" \o ret.fname
          /\ ret.fname \in DOMAIN files
          /\ files[ret.fname] = ret.summary

\* C10 witness: the directory holds two reports, and the last call has
\* overwritten one that was there.
C10_Witness ==
    /\ Cardinality(DOMAIN files) >= 2
    /\ ret.status = "returned"
    /\ \E f \in DOMAIN before.files : files[f] # before.files[f]

====
